---- MODULE Spec2Model ----
(***************************************************************************)
(* A model of the dungeon game's level generator (src/src/rooms.rs), its   *)
(* line-of-sight engine (src/src/visibility.rs) and the level queries      *)
(* built on them (src/src/level.rs, src/src/player.rs).                    *)
(*                                                                         *)
(* Floating point weights are held in fixed point, in tenths: 1.0 is 10.   *)
(* The random number generator is an oracle: every draw is a choice from   *)
(* the range the code asks for (or from a named sample of it).             *)
(***************************************************************************)
EXTENDS Integers, Sequences, FiniteSets, TLC

VARIABLES
    pc,            \* where the generator stands: the phase of rooms::generate
    size,          \* region_size, <<width, height>>
    n_rooms,       \* the number of placement attempts asked for
    v,             \* RoomBounds::generate's vector of accepted rooms
    i,             \* RoomBounds::generate's loop counter
    grid,          \* the tile grid, a function from <<x, y>> to a DungeonTile
    stone_weights, \* add_hallways' per-cell stone weight, in tenths
    k,             \* add_hallways' position in rooms.windows(2)
    to_see,        \* astar's heap, a set of <<estimated cost, cost, node>>
    parents,       \* astar's map from a node reached to <<its parent, its cost>>
    path,          \* the path astar returned for the last window
    upstairs,      \* add_stairs' list of up-stair coordinates
    downstairs,    \* add_stairs' list of down-stair coordinates
    origin,        \* visible's origin, <<x, y>>
    cell,          \* visible's cell, <<x, y>>
    radius,        \* visible's radius: None or Some(r)
    blocking,      \* visible's cell_map: the set of cells that are Blocking
    dark,          \* visible's light_map: the set of cells that are Dark
    result,        \* what visible returned in Some (None before it has)
    pos,           \* the player's Position, <<x, y>>
    known_cells,   \* the player's known_cells, a function from <<x, y>> to a bool
    turns          \* the number of turns the player has taken

genVars == <<pc, size, n_rooms, v, i, grid, stone_weights, k, to_see, parents, path,
            upstairs, downstairs>>
visVars == <<origin, cell, radius, blocking, dark, result>>
playVars == <<pos, known_cells, turns>>
vars == <<genVars, visVars, playVars>>

----------------------------------------------------------------------------
(* Program constants of rooms.rs.                                          *)

\* ROOM_SIZE_LIMITS = 4..8, a half-open Range: its start and its end.
ROOM_SIZE_START == 4
ROOM_SIZE_END == 8
ROOM_SIZE_LIMITS == ROOM_SIZE_START .. (ROOM_SIZE_END - 1)

ROOM_MIN_DISTANCE == 4

ROOM_MARGIN == 2

\* ROOM_WEIGHT = 0.2 and HALLWAY_RANDOMNESS = 0.6, in tenths.
ROOM_WEIGHT == 2
HALLWAY_RANDOMNESS == 6
\* 1.0 in tenths.
One == 5 * ROOM_WEIGHT

----------------------------------------------------------------------------
(* Bounds of the model.                                                    *)

\* The most placement attempts a run asks for (n_rooms is drawn from 0..MaxRooms).
MaxRooms == 3
\* The regions RoomBounds::generate is run on alone are MinRegionW..+RoomsExtraW
\* wide and MinRegionH..+RoomsExtraH high.
RoomsExtraW == 3
RoomsExtraH == 1

\* The narrowest region in which two rooms can be accepted side by side: two
\* rooms of the smallest size, ROOM_MIN_DISTANCE apart, and the margins (the
\* right margin is one wider than ROOM_MARGIN because the corner's range is
\* half-open).
MinRegionW == ROOM_MARGIN + ROOM_SIZE_START + ROOM_MIN_DISTANCE + ROOM_SIZE_START + ROOM_MARGIN + 1
\* The lowest region in which a room of the smallest size fits. No region of the
\* model is smaller than ROOM_SIZE_END - 1 + ROOM_MARGIN on either axis, so the
\* usize subtraction region_size - size - ROOM_MARGIN never wraps.
MinRegionH == ROOM_MARGIN + ROOM_SIZE_START + ROOM_MARGIN + 1

RoomRegions ==
    {<<w, h>> : w \in MinRegionW .. (MinRegionW + RoomsExtraW),
                h \in MinRegionH .. (MinRegionH + RoomsExtraH)}

----------------------------------------------------------------------------
(* RoomBounds.                                                             *)

RoomBounds(ul_corner, sz) == [ul_corner |-> ul_corner, size |-> sz]

\* RoomBounds::tiles: the tiles contained within the room.
tiles(room) ==
    {<<x, y>> : x \in room.ul_corner[1] .. (room.ul_corner[1] + room.size[1] - 1),
                y \in room.ul_corner[2] .. (room.ul_corner[2] + room.size[2] - 1)}

\* range_overlapping on the half-open ranges a = aStart..aEnd, b = bStart..bEnd.
RECURSIVE range_overlapping(_, _, _, _)
range_overlapping(aStart, aEnd, bStart, bEnd) ==
    IF aStart > bStart
    THEN range_overlapping(bStart, bEnd, aStart, aEnd)
    ELSE aEnd > bStart

\* RoomBounds::intersects
intersects(self, other) ==
    /\ range_overlapping(self.ul_corner[1], self.ul_corner[1] + self.size[1],
                         other.ul_corner[1], other.ul_corner[1] + other.size[1])
    /\ range_overlapping(self.ul_corner[2], self.ul_corner[2] + self.size[2],
                         other.ul_corner[2], other.ul_corner[2] + other.size[2])

\* A near that forgets to inflate the rooms: it only tests for overlap.
near_overlap_only(self, other, dist) == intersects(self, other)

\* RoomBounds::near: both rooms grown by dist to the right and downwards.
near(self, other, dist) ==
    intersects(RoomBounds(self.ul_corner, <<self.size[1] + dist, self.size[2] + dist>>),
               RoomBounds(other.ul_corner, <<other.size[1] + dist, other.size[2] + dist>>))

\* RoomBounds::center
center(room) ==
    <<room.ul_corner[1] + room.size[1] \div 2, room.ul_corner[2] + room.size[2] \div 2>>

\* rng.gen_range(lo..hi): the values a draw can give. rand panics on an empty
\* range; the caller tests for that.
gen_range(lo, hi) == lo .. (hi - 1)

\* A corner range that forgets the room's own size.
corner_range_no_size(region, sz) == gen_range(ROOM_MARGIN, region - ROOM_MARGIN)

\* The range the upper-left corner is drawn from on one axis.
corner_range(region, sz) == gen_range(ROOM_MARGIN, region - sz - ROOM_MARGIN)

\* The corners drawn when whole levels are generated: a sample of the range,
\* every (smallest room + ROOM_MIN_DISTANCE)th value of it from its start, which
\* keeps the tightest packings of rooms and the candidates near them.
Lattice(range) ==
    {x \in range : (x - ROOM_MARGIN) % (ROOM_SIZE_START + ROOM_MIN_DISTANCE) = 0}

\* A loop body's end that lets a candidate near an accepted room replace the
\* rooms accepted so far.
push_if_clear_replacing(rooms, new_room) ==
    IF \A n \in 1 .. Len(rooms) : ~near(rooms[n], new_room, ROOM_MIN_DISTANCE)
    THEN Append(rooms, new_room)
    ELSE <<new_room>>

\* The end of the loop's body: new_room is pushed when no accepted room is
\* near it, and dropped otherwise.
push_if_clear(rooms, new_room) ==
    IF \A n \in 1 .. Len(rooms) : ~near(rooms[n], new_room, ROOM_MIN_DISTANCE)
    THEN Append(rooms, new_room)
    ELSE rooms

\* One iteration of RoomBounds::generate's loop; with `sampled` the corner's x
\* is drawn from the Lattice of its range, without from the whole range. The
\* four draws happen in the code's order: both sizes, then the corner's x, then
\* its y; a draw from an empty range panics.
RoomAttemptFrom(sampled) ==
    /\ pc = "rooms"
    /\ i < n_rooms
    /\ \E w \in ROOM_SIZE_LIMITS, h \in ROOM_SIZE_LIMITS :
         IF corner_range(size[1], w) = {} \/ corner_range(size[2], h) = {}
         THEN /\ pc' = "panic"
              /\ UNCHANGED <<v, i>>
         ELSE \E x \in IF sampled THEN Lattice(corner_range(size[1], w))
                              ELSE corner_range(size[1], w),
                 y \in corner_range(size[2], h) :
                LET new_room == RoomBounds(<<x, y>>, <<w, h>>) IN
                /\ v' = push_if_clear(v, new_room)
                /\ i' = i + 1
                /\ pc' = pc
    /\ UNCHANGED <<size, n_rooms, grid, stone_weights, k, to_see, parents, path,
                   upstairs, downstairs>>
    /\ UNCHANGED <<visVars, playVars>>

\* One iteration of RoomBounds::generate's loop, every draw over its whole range.
RoomAttempt == RoomAttemptFrom(FALSE)

\* RoomBounds::generate returns v once the loop has run n_rooms times.
RoomsReturn ==
    /\ pc = "rooms"
    /\ i = n_rooms
    /\ pc' = "paint"
    /\ UNCHANGED <<size, n_rooms, v, i, grid, stone_weights, k, to_see, parents, path,
                   upstairs, downstairs>>
    /\ UNCHANGED <<visVars, playVars>>

\* An Option: None is the empty sequence and Some(x) the sequence of x alone.
None == <<>>
Some(x) == <<x>>

\* No visibility query is in hand.
VisIdle ==
    /\ origin = <<0, 0>>
    /\ cell = <<0, 0>>
    /\ radius = None
    /\ blocking = {}
    /\ dark = {}
    /\ result = None

\* No player is in the world.
PlayIdle ==
    /\ pos = <<0, 0>>
    /\ known_cells = <<>>
    /\ turns = 0

\* The state at the call of RoomBounds::generate(n_rooms, region_size, rng),
\* the region one of Regions and the number of attempts one of Counts.
GenInit(Regions, Counts) ==
    /\ pc = "rooms"
    /\ size \in Regions
    /\ n_rooms \in Counts
    /\ v = <<>>
    /\ i = 0
    /\ grid = <<>>
    /\ stone_weights = <<>>
    /\ k = 0
    /\ to_see = {}
    /\ parents = <<>>
    /\ path = <<>>
    /\ upstairs = <<>>
    /\ downstairs = <<>>
    /\ VisIdle
    /\ PlayIdle

----------------------------------------------------------------------------
(* rooms::generate: the grid, the hallways and the stairs.                 *)

\* The regions whole levels are generated on: wide enough for three rooms of
\* the smallest size side by side, ROOM_MIN_DISTANCE apart.
LevelExtraW == 0
LevelRegionW == MinRegionW + ROOM_MIN_DISTANCE + ROOM_SIZE_START
LevelRegions == {<<w, MinRegionH>> : w \in LevelRegionW .. (LevelRegionW + LevelExtraW)}

\* generate_level's callers ask for one up-stair and one down-stair
\* (rooms::generate_level(100, rng, 1, 1)).
N_UPSTAIRS == 1
N_DOWNSTAIRS == 1

Cells(sz) == (0 .. (sz[1] - 1)) \X (0 .. (sz[2] - 1))

Range(seq) == {seq[n] : n \in 1 .. Len(seq)}

\* One iteration of RoomBounds::generate's loop when a whole level is generated.
LevelRoomAttempt == RoomAttemptFrom(TRUE)

\* generate: Grid::init(.., Wall), then every tile of every room becomes Floor.
\* Indexing the grid outside the region panics.
PaintRooms ==
    /\ pc = "paint"
    /\ IF \A n \in 1 .. Len(v) : tiles(v[n]) \subseteq Cells(size)
       THEN /\ grid' = [c \in Cells(size) |->
                          IF \E n \in 1 .. Len(v) : c \in tiles(v[n])
                          THEN "Floor" ELSE "Wall"]
            /\ pc' = "weights"
       ELSE /\ pc' = "panic"
            /\ UNCHANGED grid
    /\ UNCHANGED <<size, n_rooms, v, i, stone_weights, k, to_see, parents, path,
                   upstairs, downstairs>>
    /\ UNCHANGED <<visVars, playVars>>

\* The stone weights a run can draw are 1.0 - HALLWAY_RANDOMNESS (included) to
\* 1.0 + HALLWAY_RANDOMNESS (excluded).
StoneLow == One - HALLWAY_RANDOMNESS
StoneHigh == One + HALLWAY_RANDOMNESS

\* The weight grids the model draws: one per seed in 0..MaxSeed, each cell's
\* weight a value of StoneLow..StoneHigh-1 scattered by the cell's coordinates.
MaxSeed == 1
WeightGrid(sz, seed) ==
    [c \in Cells(sz) |->
        StoneLow + ((c[1] * (2 * seed + 3) + c[2] * (3 * seed + 5) + c[1] * c[2] * seed)
                    % (StoneHigh - StoneLow))]

\* A weight grid a run can draw as well: the least weight along the top row and
\* on every (ROOM_MARGIN + ROOM_SIZE_START - 1)th column of the margin under
\* it, the greatest weight everywhere else.
RimGrid(sz) ==
    [c \in Cells(sz) |->
        IF c[2] = 0 \/ (c[2] < ROOM_MARGIN /\ c[1] % (ROOM_MARGIN + ROOM_SIZE_START - 1) = 0)
        THEN StoneLow ELSE StoneHigh - 1]

\* add_hallways: every element of stone_weights is drawn from
\* 1.0 - HALLWAY_RANDOMNESS .. 1.0 + HALLWAY_RANDOMNESS. With `rim` the model
\* draws the RimGrid too, without only the seeded grids.
DrawWeightsFrom(rim) ==
    /\ pc = "weights"
    /\ \/ \E seed \in 0 .. MaxSeed : stone_weights' = WeightGrid(size, seed)
       \/ rim /\ stone_weights' = RimGrid(size)
    /\ pc' = "hallways"
    /\ UNCHANGED <<size, n_rooms, v, i, grid, k, to_see, parents, path,
                   upstairs, downstairs>>
    /\ UNCHANGED <<visVars, playVars>>

DrawWeights == DrawWeightsFrom(FALSE)
DrawRimWeights == DrawWeightsFrom(TRUE)

\* The four moves of a hallway, in the order of the neighbors array.
neighbors == <<<<-1, 0>>, <<1, 0>>, <<0, -1>>, <<0, 1>>>>

\* A cost that takes every cell for stone.
move_cost_stone(g, weights, c) == weights[c]

\* The cost of stepping into cell c: its stone weight if it is Wall, ROOM_WEIGHT
\* if it is anything else.
move_cost(g, weights, c) == IF g[c] = "Wall" THEN weights[c] ELSE ROOM_WEIGHT

\* The successors closure: the in-bounds 4-neighbours of node, in the order of
\* the neighbors array, each with the cost of stepping into it.
successors(g, weights, node) ==
    LET at(n) == <<node[1] + neighbors[n][1], node[2] + neighbors[n][2]>>
        RECURSIVE from(_)
        from(n) ==
            IF n > Len(neighbors) THEN <<>>
            ELSE IF at(n) \in DOMAIN g
                 THEN <<<<at(n), move_cost(g, weights, at(n))>>>> \o from(n + 1)
                 ELSE from(n + 1)
    IN from(1)

Abs(n) == IF n < 0 THEN -n ELSE n
Min(a, b) == IF a < b THEN a ELSE b
Max(a, b) == IF a < b THEN b ELSE a

\* A heuristic that takes the dearest cell for the cheapest.
heuristic_max(node, to) ==
    (Abs(node[1] - to[1]) + Abs(node[2] - to[2])) * (One + HALLWAY_RANDOMNESS)

\* The heuristic closure: the Manhattan distance to `to` times the least cost of
\* a cell.
heuristic(node, to) ==
    LET min_node_cost == Min(One - HALLWAY_RANDOMNESS, ROOM_WEIGHT)
        dx == node[1] - to[1]
        dy == node[2] - to[2]
        min_dist == Abs(dx) + Abs(dy)
    IN min_dist * min_node_cost

\* The entry astar pops from to_see: the least estimated cost, and among those
\* the greatest cost (the order of the pathfinding crate's SmallestCostHolder).
\* Entries that tie on both are popped in an order of the heap's own.
Pop(heap) ==
    LET ests == {e[1] : e \in heap}
        est == CHOOSE m \in ests : \A n \in ests : m <= n
        costs == {e[2] : e \in {t \in heap : t[1] = est}}
        cost == CHOOSE m \in costs : \A n \in costs : m >= n
    IN CHOOSE e \in heap : e[1] = est /\ e[2] = cost

\* reverse_path: the nodes from the start to `node` along the parents map. The
\* start is its own parent here (the crate gives it the index usize::MAX).
RECURSIVE reverse_path(_, _)
reverse_path(map, node) ==
    IF map[node][1] = node THEN <<node>>
    ELSE Append(reverse_path(map, map[node][1]), node)

\* astar's loop over the successors of a popped node: a successor reached for
\* the first time, or more cheaply than recorded, is recorded in parents and
\* pushed on to_see with its estimated cost. The result is <<to_see, parents>>.
RECURSIVE visit(_, _, _, _, _, _, _)
visit(succ, n, node, cost, to, heap, map) ==
    IF n > Len(succ) THEN <<heap, map>>
    ELSE LET s == succ[n][1]
             new_cost == cost + succ[n][2]
         IN IF s \notin DOMAIN map
            THEN visit(succ, n + 1, node, cost, to,
                       heap \cup {<<new_cost + heuristic(s, to), new_cost, s>>},
                       map @@ (s :> <<node, new_cost>>))
            ELSE IF map[s][2] > new_cost
            THEN visit(succ, n + 1, node, cost, to,
                       heap \cup {<<new_cost + heuristic(s, to), new_cost, s>>},
                       [map EXCEPT ![s] = <<node, new_cost>>])
            ELSE visit(succ, n + 1, node, cost, to, heap, map)

\* A carve that turns every cell of the path into Hallway.
carve_all(g, p) == [c \in DOMAIN g |-> IF c \in Range(p) THEN "Hallway" ELSE g[c]]

\* A carve that leaves the grid as it is.
carve_nothing(g, p) == g

\* The loop over the path: a cell of it that is Wall becomes Hallway.
carve(g, p) ==
    [c \in DOMAIN g |-> IF c \in Range(p) /\ g[c] = "Wall" THEN "Hallway" ELSE g[c]]

\* The window add_hallways is routing: from one room's center to the next one's.
from == center(v[k + 1])
to == center(v[k + 2])

\* add_hallways takes the next window of rooms.windows(2) and calls astar, which
\* pushes the start on to_see and records it in parents.
AstarStart ==
    /\ pc = "hallways"
    /\ k + 2 <= Len(v)
    /\ to_see' = {<<0, 0, from>>}
    /\ parents' = (from :> <<from, 0>>)
    /\ pc' = "astar"
    /\ UNCHANGED <<size, n_rooms, v, i, grid, stone_weights, k, path, upstairs, downstairs>>
    /\ UNCHANGED <<visVars, playVars>>

\* One iteration of astar's loop. An empty to_see ends the search with None,
\* and the expect panics. A popped goal ends it with the path to the goal. A
\* popped entry dearer than its node's recorded cost is dropped. Any other
\* popped node is expanded.
AstarStep ==
    /\ pc = "astar"
    /\ IF to_see = {}
       THEN /\ pc' = "panic"
            /\ UNCHANGED <<to_see, parents, path>>
       ELSE LET e == Pop(to_see)
                node == e[3]
                rest == to_see \ {e}
            IN IF node = to
               THEN /\ path' = reverse_path(parents, node)
                    /\ to_see' = {}
                    /\ parents' = <<>>
                    /\ pc' = "carve"
               ELSE IF e[2] > parents[node][2]
               THEN /\ to_see' = rest
                    /\ UNCHANGED <<parents, path, pc>>
               ELSE LET out == visit(successors(grid, stone_weights, node), 1, node,
                                     e[2], to, rest, parents)
                    IN /\ to_see' = out[1]
                       /\ parents' = out[2]
                       /\ UNCHANGED <<path, pc>>
    /\ UNCHANGED <<size, n_rooms, v, i, grid, stone_weights, k, upstairs, downstairs>>
    /\ UNCHANGED <<visVars, playVars>>

\* The loop over the path astar returned, and on to the next window.
CarvePath ==
    /\ pc = "carve"
    /\ grid' = carve(grid, path)
    /\ k' = k + 1
    /\ pc' = "hallways"
    /\ UNCHANGED <<size, n_rooms, v, i, stone_weights, path, to_see, parents,
                   upstairs, downstairs>>
    /\ UNCHANGED <<visVars, playVars>>

\* add_hallways returns once every window has been routed.
HallwaysReturn ==
    /\ pc = "hallways"
    /\ k + 2 > Len(v)
    /\ pc' = "stairs"
    /\ UNCHANGED <<size, n_rooms, v, i, grid, stone_weights, k, path, to_see, parents,
                   upstairs, downstairs>>
    /\ UNCHANGED <<visVars, playVars>>

\* The cells empty_square's draws are taken from: a sample of the grid, its
\* middle row, which crosses walls, rooms and hallways.
StairDraws(sz) == {c \in Cells(sz) : c[2] = sz[2] \div 2}

\* An empty_square that takes any tile that is not Wall.
is_empty_any_open(g, c) == g[c] # "Wall"

\* empty_square's test of a drawn cell.
is_empty(g, c) == g[c] = "Floor"

\* empty_square draws a cell that is not Floor and loops.
EmptySquareMiss ==
    /\ pc = "stairs"
    /\ Len(upstairs) < N_UPSTAIRS \/ Len(downstairs) < N_DOWNSTAIRS
    /\ \E c \in StairDraws(size) : ~is_empty(grid, c)
    /\ UNCHANGED vars

\* One iteration of add_stairs' first loop: empty_square draws a Floor cell,
\* which is pushed and becomes Upstair.
PlaceUpstair ==
    /\ pc = "stairs"
    /\ Len(upstairs) < N_UPSTAIRS
    /\ \E c \in StairDraws(size) :
         /\ is_empty(grid, c)
         /\ upstairs' = Append(upstairs, c)
         /\ grid' = [grid EXCEPT ![c] = "Upstair"]
    /\ UNCHANGED <<pc, size, n_rooms, v, i, stone_weights, k, to_see, parents, path,
                   downstairs>>
    /\ UNCHANGED <<visVars, playVars>>

\* One iteration of add_stairs' second loop, the same for Downstair.
PlaceDownstair ==
    /\ pc = "stairs"
    /\ Len(upstairs) = N_UPSTAIRS
    /\ Len(downstairs) < N_DOWNSTAIRS
    /\ \E c \in StairDraws(size) :
         /\ is_empty(grid, c)
         /\ downstairs' = Append(downstairs, c)
         /\ grid' = [grid EXCEPT ![c] = "Downstair"]
    /\ UNCHANGED <<pc, size, n_rooms, v, i, stone_weights, k, to_see, parents, path,
                   upstairs>>
    /\ UNCHANGED <<visVars, playVars>>

\* add_stairs, and with it generate, returns the grid and the two lists.
GenerateReturn ==
    /\ pc = "stairs"
    /\ Len(upstairs) = N_UPSTAIRS
    /\ Len(downstairs) = N_DOWNSTAIRS
    /\ pc' = "done"
    /\ UNCHANGED <<size, n_rooms, v, i, grid, stone_weights, k, to_see, parents, path,
                   upstairs, downstairs>>
    /\ UNCHANGED <<visVars, playVars>>

----------------------------------------------------------------------------
(* visibility.rs: visible and line.                                        *)

\* The coordinates of the visibility queries the model asks are 0..VisMax on
\* both axes.
VisMax == 3
VisCells == (0 .. VisMax) \X (0 .. VisMax)
\* The radii asked: None, and every number from -1 to one past the longest
\* distance of the window along an axis.
Radii == {None} \cup {Some(r) : r \in -1 .. (VisMax + 1)}

\* A float to i32 cast of num / den, den > 0: the quotient rounded towards zero.
Trunc(num, den) == IF num >= 0 THEN num \div den ELSE -((-num) \div den)

\* A last branch of line that also yields the cell in the end's column.
line_to_end(start, end) ==
    LET dx == end[1] - start[1]
        dy == end[2] - start[2]
        dx2 == 2 * dx - 1
        dy2 == IF dy > 0 THEN 2 * dy - 1 ELSE IF dy < 0 THEN 2 * dy + 1 ELSE 0
    IN [n \in 1 .. (dx + 1) |->
          <<start[1] + n - 1,
            IF dx = 0 THEN start[2]
            ELSE Trunc(2 * start[2] * dx2 + 2 * (n - 1) * dy2 + dx2, 2 * dx2)>>]

\* A last branch of line that moves the destination's y down by half a cell
\* whatever the sign of dy.
line_last_down(start, end) ==
    LET dx == end[1] - start[1]
        dy == end[2] - start[2]
        dx2 == 2 * dx - 1
        dy2 == IF dy = 0 THEN 0 ELSE 2 * dy - 1
    IN [n \in 1 .. dx |->
          <<start[1] + n - 1,
            Trunc(2 * start[2] * dx2 + 2 * (n - 1) * dy2 + dx2, 2 * dx2)>>]

\* The last branch of line: from left to right, the slope at most 1 in
\* magnitude. The destination is moved half a cell towards the start on each
\* axis, so the slope is (dy -+ 0.5) / (dx - 0.5) = dy2 / dx2, in halves. The
\* n-th cell is <<start.0 + n - 1, (y + 0.5) as i32>> with y = start.1 +
\* (n - 1) * slope, as long as its x is less than end.0. The floats are held as
\* exact fractions: y + 0.5 is never within 1 / (2 * dx2) of an integer (its
\* numerator over 2 * dx2 is odd), far more than the rounding of the float sums.
line_last(start, end) ==
    LET dx == end[1] - start[1]
        dy == end[2] - start[2]
        dx2 == 2 * dx - 1
        dy2 == IF dy > 0 THEN 2 * dy - 1 ELSE IF dy < 0 THEN 2 * dy + 1 ELSE 0
    IN [n \in 1 .. dx |->
          <<start[1] + n - 1,
            Trunc(2 * start[2] * dx2 + 2 * (n - 1) * dy2 + dx2, 2 * dx2)>>]

\* A line that traces a steep line without swapping x and y.
line_no_transpose(start, end) ==
    IF end[1] - start[1] < 0
    THEN LET l == line_last(<<-start[1], start[2]>>, <<-end[1], end[2]>>)
         IN [n \in 1 .. Len(l) |-> <<-l[n][1], l[n][2]>>]
    ELSE line_last(start, end)

\* line: the cells in a straight line from start to end, start included and
\* end not. A steep line is traced with x and y swapped, a line to the left
\* with x negated, and the cells are mapped back.
RECURSIVE line(_, _)
line(start, end) ==
    LET dx == end[1] - start[1]
        dy == end[2] - start[2]
    IN IF Abs(dx) < Abs(dy)
       THEN LET l == line(<<start[2], start[1]>>, <<end[2], end[1]>>)
            IN [n \in 1 .. Len(l) |-> <<l[n][2], l[n][1]>>]
       ELSE IF dx < 0
       THEN LET l == line(<<-start[1], start[2]>>, <<-end[1], end[2]>>)
            IN [n \in 1 .. Len(l) |-> <<-l[n][1], l[n][2]>>]
       ELSE line_last(start, end)

\* A visible whose radius reaches the cells at exactly the radius.
visible_within(o, c, r, cell_map, light_map) ==
    LET dx == c[1] - o[1]
        dy == c[2] - o[2]
    IN /\ r = None \/ dx * dx + dy * dy <= r[1] * r[1]
       /\ c \notin light_map
       /\ LET l == line(o, c)
          IN \A n \in 1 .. Len(l) : l[n] \notin cell_map

\* visible: whether a monster at o sees cell c. cell_map is the set of Blocking
\* cells and light_map the set of Dark ones. (The i32 products cannot overflow
\* on the coordinates of a level.)
visible(o, c, r, cell_map, light_map) ==
    LET dx == c[1] - o[1]
        dy == c[2] - o[2]
    IN /\ r = None \/ dx * dx + dy * dy < r[1] * r[1]
       /\ c \notin light_map
       /\ LET l == line(o, c)
          IN \A n \in 1 .. Len(l) : l[n] \notin cell_map

\* The queries asked: any origin and cell of the window, any radius, at most
\* one Blocking cell, and the cell itself Lit or Dark.
VisInit ==
    /\ origin \in VisCells
    /\ cell \in VisCells
    /\ radius \in Radii
    /\ blocking \in {{}} \cup {{b} : b \in VisCells}
    /\ dark \in {{}, {cell}}
    /\ result = None
    /\ pc = "visible"
    /\ size = <<VisMax + 1, VisMax + 1>>
    /\ n_rooms = 0
    /\ v = <<>>
    /\ i = 0
    /\ grid = <<>>
    /\ stone_weights = <<>>
    /\ k = 0
    /\ to_see = {}
    /\ parents = <<>>
    /\ path = <<>>
    /\ upstairs = <<>>
    /\ downstairs = <<>>
    /\ PlayIdle

\* The call of visible.
Visible ==
    /\ pc = "visible"
    /\ result = None
    /\ result' = Some(visible(origin, cell, radius, blocking, dark))
    /\ UNCHANGED <<origin, cell, radius, blocking, dark>>
    /\ UNCHANGED <<genVars, playVars>>

VisNext == Visible

\* visible on its own.
SpecVis == VisInit /\ [][VisNext]_vars

----------------------------------------------------------------------------
(* level.rs, player.rs and main.rs: the player in a generated level.        *)

\* The turns a player takes in the model.
MaxTurns == 2

\* DungeonTile::is_floor: every tile but Wall.
is_floor(t) == t # "Wall"

\* DungeonTile::is_navigable, which is is_floor.
is_navigable(t) == is_floor(t)

\* DungeonLevel::can_see: visible within the radius Some(10), the tiles that
\* are not navigable Blocking and every cell Lit. (The cells of a line between
\* two cells of the level are cells of the level, so tile does not panic.)
can_see(g, f, t) ==
    visible(f, t, Some(10), {c \in DOMAIN g : ~is_navigable(g[c])}, {})

\* MobAction: Nop, or Move(dx, dy).
Nop == None
Move(dx, dy) == <<dx, dy>>

\* The actions player_turn maps keys to: '.', and the eight directions.
KeyActions ==
    {Nop} \cup ({Move(dx, dy) : dx \in -1 .. 1, dy \in -1 .. 1} \ {Move(0, 0)})

\* The cell an action takes a mob at p to.
Target(p, a) == IF a = Nop THEN p ELSE <<p[1] + a[1], p[2] + a[2]>>

\* possible: Nop always is; Move is when the tile moved to is navigable.
possible(g, p, a) == a = Nop \/ is_navigable(g[Target(p, a)])

\* A discovery update that forgets what is out of sight.
update_discovery_overwrite(known, p, g) ==
    [c \in DOMAIN known |-> can_see(g, p, c)]

\* update_discovery(observer_known_cells, observer_pos, level): every cell the
\* observer sees becomes known; no entry is cleared.
update_discovery(known, p, g) ==
    [c \in DOMAIN known |-> known[c] \/ can_see(g, p, c)]

\* The levels the player is put in: the region of a whole level, three rooms of
\* the least size in a row at the least distance, joined by hallways along the
\* row under their top one, and the stairs on two Floor tiles side by side that
\* empty_square can draw. generate returns each of them.
PlaySize == <<LevelRegionW, MinRegionH>>
PlayRoomCount ==
    (LevelRegionW - 2 * ROOM_MARGIN + ROOM_MIN_DISTANCE)
      \div (ROOM_SIZE_START + ROOM_MIN_DISTANCE)
PlayRooms ==
    [n \in 1 .. PlayRoomCount |->
       RoomBounds(<<ROOM_MARGIN + (PlayRoomCount - n) * (ROOM_SIZE_START + ROOM_MIN_DISTANCE),
                    ROOM_MARGIN>>,
                  <<ROOM_SIZE_START, ROOM_SIZE_START>>)]
PlayHallway ==
    [n \in 1 .. (PlayRoomCount * (ROOM_SIZE_START + ROOM_MIN_DISTANCE) - ROOM_MIN_DISTANCE) |->
       <<ROOM_MARGIN + n - 1, ROOM_MARGIN + 1>>]
PlayGrid ==
    carve([c \in Cells(PlaySize) |->
             IF \E n \in 1 .. Len(PlayRooms) : c \in tiles(PlayRooms[n])
             THEN "Floor" ELSE "Wall"],
          PlayHallway)

\* main: the level is generated and the player spawns on its first up-stair,
\* with nothing known.
PlayInit ==
    /\ pc = "play"
    /\ size = PlaySize
    /\ n_rooms = PlayRoomCount
    /\ v = PlayRooms
    /\ i = PlayRoomCount
    /\ \E up \in StairDraws(PlaySize) : \E down \in StairDraws(PlaySize) :
         /\ Abs(down[1] - up[1]) = 1
         /\ is_empty(PlayGrid, up)
         /\ is_empty(PlayGrid, down)
         /\ grid = [PlayGrid EXCEPT ![up] = "Upstair", ![down] = "Downstair"]
         /\ upstairs = <<up>>
         /\ downstairs = <<down>>
    /\ stone_weights = <<>>
    /\ k = PlayRoomCount - 1
    /\ to_see = {}
    /\ parents = <<>>
    /\ path = <<>>
    /\ pos = upstairs[1]
    /\ known_cells = [c \in Cells(PlaySize) |-> FALSE]
    /\ turns = 0
    /\ VisIdle

\* One turn of the player: player_turn reads keys until one maps to an action
\* that is possible (tile panics on a cell outside of the level), the action is
\* carried out, and the player's discovery is updated.
PlayerTurn ==
    /\ pc = "play"
    /\ turns < MaxTurns
    /\ \E a \in KeyActions :
         IF Target(pos, a) \notin DOMAIN grid
         THEN /\ pc' = "panic"
              /\ UNCHANGED <<pos, known_cells, turns>>
         ELSE /\ possible(grid, pos, a)
              /\ pos' = Target(pos, a)
              /\ known_cells' = update_discovery(known_cells, pos', grid)
              /\ turns' = turns + 1
              /\ UNCHANGED pc
    /\ UNCHANGED <<size, n_rooms, v, i, grid, stone_weights, k, to_see, parents, path,
                   upstairs, downstairs>>
    /\ UNCHANGED visVars

PlayNext == PlayerTurn

\* The player's turns in a generated level.
SpecPlay == PlayInit /\ [][PlayNext]_vars

----------------------------------------------------------------------------
(* level.rs: DungeonLevel::tile and DungeonLevel::render_tile.             *)

\* A cast that takes the magnitude of a negative number.
as_usize_abs(n) == <<0, Abs(n)>>

\* n as usize, for an i32 n: a negative n wraps to 2^64 + n. The usize is held
\* as <<hi, lo>>, standing for hi * 2^64 + lo.
as_usize(n) == <<IF n < 0 THEN 1 ELSE 0, n>>

\* Whether a usize index is within a length (a length is far below 2^64 - 2^31).
InBounds(idx, len) == idx[1] = 0 /\ idx[2] < len

\* DungeonLevel::tile: self.tiles[y as usize][x as usize], Some of the tile, or
\* None where the indexing panics. sz is the size of the level.
tile(g, sz, x, y) ==
    IF InBounds(as_usize(y), sz[2]) /\ InBounds(as_usize(x), sz[1])
    THEN Some(g[<<as_usize(x)[2], as_usize(y)[2]>>])
    ELSE None

\* render_tile's has_floor: whether a tile at one of the deltas from c, among
\* those inside of the level, is a floor.
has_floor(g, sz, c, deltas) ==
    \E d \in deltas :
        /\ <<c[1] + d[1], c[2] + d[2]>> \in Cells(sz)
        /\ is_floor(tile(g, sz, c[1] + d[1], c[2] + d[2])[1])

\* A render_tile that looks east and west before north and south.
render_tile_sides_first(g, sz, c) ==
    CASE g[c] = "Floor" -> "."
      [] g[c] = "Wall" ->
           IF has_floor(g, sz, c, {<<-1, 0>>, <<1, 0>>}) THEN "|"
           ELSE IF has_floor(g, sz, c, {<<0, -1>>, <<0, 1>>}) THEN "-"
           ELSE IF has_floor(g, sz, c, {<<-1, -1>>, <<-1, 1>>, <<1, -1>>, <<1, 1>>}) THEN "+"
           ELSE " "
      [] g[c] = "Upstair" -> "<"
      [] g[c] = "Downstair" -> ">"
      [] g[c] = "Hallway" -> "#"

\* A render_tile that does not look at the diagonals.
render_tile_no_corner(g, sz, c) ==
    CASE g[c] = "Floor" -> "."
      [] g[c] = "Wall" ->
           IF has_floor(g, sz, c, {<<0, -1>>, <<0, 1>>}) THEN "-"
           ELSE IF has_floor(g, sz, c, {<<-1, 0>>, <<1, 0>>}) THEN "|"
           ELSE " "
      [] g[c] = "Upstair" -> "<"
      [] g[c] = "Downstair" -> ">"
      [] g[c] = "Hallway" -> "#"

\* DungeonLevel::render_tile, for a cell c of the level. (Hallway, which
\* add_hallways writes, is drawn as game.rs draws it.)
render_tile(g, sz, c) ==
    CASE g[c] = "Floor" -> "."
      [] g[c] = "Wall" ->
           IF has_floor(g, sz, c, {<<0, -1>>, <<0, 1>>}) THEN "-"
           ELSE IF has_floor(g, sz, c, {<<-1, 0>>, <<1, 0>>}) THEN "|"
           ELSE IF has_floor(g, sz, c, {<<-1, -1>>, <<-1, 1>>, <<1, -1>>, <<1, 1>>}) THEN "+"
           ELSE " "
      [] g[c] = "Upstair" -> "<"
      [] g[c] = "Downstair" -> ">"
      [] g[c] = "Hallway" -> "#"

\* The levels that are rendered and read are RenderW wide and three high.
RenderW == 3
RenderSize == <<RenderW, 3>>

\* The tile an open cell of these levels holds: the four kinds in turn.
OpenKind(c) ==
    CASE (c[1] + c[2] * RenderW) % 4 = 0 -> "Floor"
      [] (c[1] + c[2] * RenderW) % 4 = 1 -> "Hallway"
      [] (c[1] + c[2] * RenderW) % 4 = 2 -> "Upstair"
      [] (c[1] + c[2] * RenderW) % 4 = 3 -> "Downstair"

\* Every choice of open cells.
RenderGrids ==
    {[c \in Cells(RenderSize) |-> IF c \in S THEN OpenKind(c) ELSE "Wall"] :
        S \in SUBSET Cells(RenderSize)}

\* The coordinates asked for: the level's, and one further on every side.
ProbeCells == (-1 .. RenderSize[1]) \X (-1 .. RenderSize[2])

\* A call of render_tile (whose coordinates are usize) or of tile on a level.
RenderInit ==
    /\ pc \in {"render_tile", "tile"}
    /\ size = RenderSize
    /\ grid \in RenderGrids
    /\ cell \in ProbeCells
    /\ pc = "render_tile" => cell[1] >= 0 /\ cell[2] >= 0
    /\ result = None
    /\ origin = <<0, 0>>
    /\ radius = None
    /\ blocking = {}
    /\ dark = {}
    /\ n_rooms = 0
    /\ v = <<>>
    /\ i = 0
    /\ stone_weights = <<>>
    /\ k = 0
    /\ to_see = {}
    /\ parents = <<>>
    /\ path = <<>>
    /\ upstairs = <<>>
    /\ downstairs = <<>>
    /\ PlayIdle

\* The call of render_tile: self.tiles[y][x] panics outside of the level.
RenderTile ==
    /\ pc = "render_tile"
    /\ IF cell \in Cells(size)
       THEN /\ result' = Some(render_tile(grid, size, cell))
            /\ pc' = "returned"
       ELSE /\ pc' = "panic"
            /\ UNCHANGED result
    /\ UNCHANGED <<size, n_rooms, v, i, grid, stone_weights, k, to_see, parents, path,
                   upstairs, downstairs>>
    /\ UNCHANGED <<origin, cell, radius, blocking, dark>>
    /\ UNCHANGED playVars

\* The call of tile.
TileAccess ==
    /\ pc = "tile"
    /\ IF tile(grid, size, cell[1], cell[2]) # None
       THEN /\ result' = tile(grid, size, cell[1], cell[2])
            /\ pc' = "returned"
       ELSE /\ pc' = "panic"
            /\ UNCHANGED result
    /\ UNCHANGED <<size, n_rooms, v, i, grid, stone_weights, k, to_see, parents, path,
                   upstairs, downstairs>>
    /\ UNCHANGED <<origin, cell, radius, blocking, dark>>
    /\ UNCHANGED playVars

RenderNext == RenderTile \/ TileAccess

\* render_tile and tile on their own.
SpecRender == RenderInit /\ [][RenderNext]_vars

RoomsInit == GenInit(RoomRegions, 0 .. MaxRooms)

RoomsNext == RoomAttempt \/ RoomsReturn

\* RoomBounds::generate on its own.
SpecRooms == RoomsInit /\ [][RoomsNext]_vars

----------------------------------------------------------------------------
(* What the claims speak of.                                               *)

\* The 4-neighbours of a cell inside the grid g.
Neighbours4(g, c) ==
    {d \in {<<c[1] - 1, c[2]>>, <<c[1] + 1, c[2]>>, <<c[1], c[2] - 1>>, <<c[1], c[2] + 1>>} :
        d \in DOMAIN g}

Open(g) == {c \in DOMAIN g : g[c] # "Wall"}

\* The non-Wall cells a chain of 4-adjacent non-Wall cells reaches from `seen`,
\* `frontier` being the cells of `seen` whose neighbours are still to be looked at.
RECURSIVE Flood(_, _, _)
Flood(g, seen, frontier) ==
    LET more == {d \in UNION {Neighbours4(g, c) : c \in frontier} :
                    g[d] # "Wall" /\ d \notin seen}
    IN IF more = {} THEN seen ELSE Flood(g, seen \cup more, more)

\* Every non-Wall cell reaches every other. One flood decides it: reachability
\* among non-Wall cells is symmetric and transitive.
Connected(g) ==
    Open(g) = {} \/ LET c == CHOOSE o \in Open(g) : TRUE IN Flood(g, {c}, {c}) = Open(g)

\* The number of tiles between two half-open ranges that do not overlap (a
\* negative number when they do).
Gap(aStart, aLen, bStart, bLen) == Max(bStart - (aStart + aLen), aStart - (bStart + bLen))

\* The router's cost model as the claims state it: entering a Wall cell costs
\* its stone weight, entering any other cell costs ROOM_WEIGHT.
EnterCost(g, weights, c) == IF g[c] = "Wall" THEN weights[c] ELSE ROOM_WEIGHT

\* The cost of a path: the cost of every cell entered, on the grid g.
RECURSIVE PathCost(_, _, _)
PathCost(g, weights, p) ==
    IF Len(p) <= 1 THEN 0
    ELSE PathCost(g, weights, SubSeq(p, 1, Len(p) - 1)) + EnterCost(g, weights, p[Len(p)])

\* More than any path costs.
Infinity(g) == Cardinality(DOMAIN g) * StoneHigh

\* The least cost of a 4-connected in-bounds path from every cell to t, by
\* relaxation to the fixed point (Bellman-Ford); d[c] is the least cost found so
\* far from c.
RECURSIVE Relax(_, _, _)
Relax(g, weights, d) ==
    LET step == [c \in DOMAIN g |->
                    LET via == {EnterCost(g, weights, m) + d[m] : m \in Neighbours4(g, c)}
                                 \cup {d[c]}
                    IN CHOOSE x \in via : \A y \in via : x <= y]
    IN IF step = d THEN d ELSE Relax(g, weights, step)

MinCostTo(g, weights, t) ==
    Relax(g, weights, [c \in DOMAIN g |-> IF c = t THEN 0 ELSE Infinity(g)])

Routing == {"hallways", "astar", "carve"}

----------------------------------------------------------------------------
(* The claims.                                                             *)

\* C1: once the corridor router has run over the accepted rooms, and still
\* after the stairs are placed, the grid is fully connected: every non-Wall cell
\* reaches every other by a chain of 4-adjacent non-Wall cells.
C1_Connected == pc \in {"stairs", "done"} => Connected(grid)

\* Three rooms were accepted, two hallways carved, and generate has returned.
C1_Witness ==
    /\ pc = "done"
    /\ Len(v) = 3
    /\ \E c \in DOMAIN grid : grid[c] = "Hallway"

\* C2: any two rooms RoomBounds::generate has accepted have, on the X axis or
\* on the Y axis, at least ROOM_MIN_DISTANCE tiles between their interiors; in
\* particular they share no tile.
C2_Separated ==
    \A m, n \in 1 .. Len(v) :
        m # n =>
          /\ \/ Gap(v[m].ul_corner[1], v[m].size[1], v[n].ul_corner[1], v[n].size[1])
                  >= ROOM_MIN_DISTANCE
             \/ Gap(v[m].ul_corner[2], v[m].size[2], v[n].ul_corner[2], v[n].size[2])
                  >= ROOM_MIN_DISTANCE
          /\ tiles(v[m]) \cap tiles(v[n]) = {}

\* generate has returned two rooms or more, exactly ROOM_MIN_DISTANCE apart,
\* after discarding a candidate.
C2_Witness ==
    /\ pc = "paint"
    /\ Len(v) >= 2
    /\ i > Len(v)
    /\ Gap(v[1].ul_corner[1], v[1].size[1], v[2].ul_corner[1], v[2].size[1])
         = ROOM_MIN_DISTANCE

\* C3: every tile of every room RoomBounds::generate has accepted lies in
\* [ROOM_MARGIN, size - ROOM_MARGIN) on both axes.
C3_WithinMargin ==
    \A n \in 1 .. Len(v) : \A c \in tiles(v[n]) :
        /\ ROOM_MARGIN <= c[1] /\ c[1] < size[1] - ROOM_MARGIN
        /\ ROOM_MARGIN <= c[2] /\ c[2] < size[2] - ROOM_MARGIN

\* generate has returned a room that starts on the left margin and one that
\* comes as close to the right edge as a room can.
C3_Witness ==
    /\ pc = "paint"
    /\ \E n \in 1 .. Len(v) : v[n].ul_corner[1] = ROOM_MARGIN
    /\ \E n \in 1 .. Len(v) :
           v[n].ul_corner[1] + v[n].size[1] = size[1] - ROOM_MARGIN - 1

StairsPlaced ==
    /\ \A n \in 1 .. Len(upstairs) : grid[upstairs[n]] = "Upstair"
    /\ \A n \in 1 .. Len(downstairs) : grid[downstairs[n]] = "Downstair"
    /\ Cardinality(Range(upstairs) \cup Range(downstairs)) = Len(upstairs) + Len(downstairs)
    /\ pc = "done" => Len(upstairs) = N_UPSTAIRS /\ Len(downstairs) = N_DOWNSTAIRS

\* C4: stair placement changes only cells that hold Floor when they are
\* chosen; the stairs placed are on pairwise distinct cells; every coordinate of
\* the up-stair list indexes an Upstair and every one of the down-stair list a
\* Downstair; and at the return the lists have the lengths asked for.
C4_Stairs ==
    [][/\ pc = "stairs" =>
            \A c \in DOMAIN grid : grid'[c] # grid[c] => grid[c] = "Floor"
       /\ pc' \in {"stairs", "done"} => StairsPlaced']_vars

\* Both stairs are placed, in a level where a draw could have hit a hallway.
C4_Witness ==
    /\ pc = "done"
    /\ Len(upstairs) = N_UPSTAIRS /\ Len(downstairs) = N_DOWNSTAIRS
    /\ \E c \in StairDraws(size) : grid[c] = "Hallway"

\* C5: carving a routed path turns exactly the Wall cells of the path into
\* Hallway: a cell of the path that held another tile keeps it, a cell off the
\* path is unchanged; and while hallways are routed every tile of every room
\* stays Floor.
C5_CarveFrame ==
    [][/\ pc = "carve" =>
            \A c \in DOMAIN grid :
                grid'[c] = IF c \in Range(path) /\ grid[c] = "Wall" THEN "Hallway" ELSE grid[c]
       /\ pc' \in Routing \/ (pc \in Routing /\ pc' = "stairs") =>
            \A n \in 1 .. Len(v') : \A c \in tiles(v'[n]) : grid'[c] = "Floor"]_vars

\* The second hallway has been carved along a path that crosses Floor, an
\* earlier Hallway and what was Wall.
C5_Witness ==
    /\ pc = "hallways"
    /\ k = 2
    /\ \E c \in Range(path) : grid[c] = "Floor"
    /\ \E c \in Range(path) : grid[c] = "Hallway"
    /\ \E c \in DOMAIN grid : grid[c] = "Hallway" /\ c \notin Range(path)

\* C6: the path astar returns for a window is a 4-connected in-bounds path from
\* the first room's center to the second one's, and its cost is the least of
\* all such paths, on the grid as it stands before the path is carved.
C6_ShortestPath ==
    pc = "carve" =>
        /\ Len(path) >= 1
        /\ path[1] = from
        /\ path[Len(path)] = to
        /\ \A n \in 1 .. Len(path) : path[n] \in DOMAIN grid
        /\ \A n \in 1 .. (Len(path) - 1) : path[n + 1] \in Neighbours4(grid, path[n])
        /\ PathCost(grid, stone_weights, path) = MinCostTo(grid, stone_weights, to)[from]

\* The second window's path is found, over a grid that holds the first hallway.
C6_Witness ==
    /\ pc = "carve"
    /\ k = 1
    /\ \E c \in DOMAIN grid : grid[c] = "Hallway"

\* The targets the heuristic is tried on: every room's center (the router's
\* targets are among them) and the four corners of the grid.
Targets ==
    {center(v[n]) : n \in 1 .. Len(v)}
      \cup ({0, size[1] - 1} \X {0, size[2] - 1})

\* C7: the heuristic, Manhattan distance times min(1 - HALLWAY_RANDOMNESS,
\* ROOM_WEIGHT), never exceeds the least cost of a path to the target, from any
\* cell, on the grid of any window.
C7_Admissible ==
    pc = "carve" =>
        \A t \in Targets :
            LET least == MinCostTo(grid, stone_weights, t)
            IN \A c \in DOMAIN grid :
                 /\ heuristic(c, t)
                      = (Abs(c[1] - t[1]) + Abs(c[2] - t[2]))
                          * Min(One - HALLWAY_RANDOMNESS, ROOM_WEIGHT)
                 /\ heuristic(c, t) <= least[c]

\* A window is routed in a level of three rooms, the grid holding a hallway.
C7_Witness ==
    /\ pc = "carve"
    /\ Len(v) = 3
    /\ k = 1

\* The radius test of the claims: no radius, or the squared distance strictly
\* less than the squared radius.
InRadius == radius = None
              \/ (cell[1] - origin[1]) * (cell[1] - origin[1])
                   + (cell[2] - origin[2]) * (cell[2] - origin[2]) < radius[1] * radius[1]

C9_SeesItselfAnyRadius ==
    (result # None /\ origin = cell /\ cell \notin dark
       /\ (radius = None \/ radius[1] >= 0))
      => result = Some(TRUE)

\* C9: a Lit cell sees itself, whatever is Blocking, for every radius >= 1 and
\* for no radius. (At radius 0 the squared distance 0 is not less than 0.)
C9_SeesItself ==
    (result # None /\ origin = cell /\ cell \notin dark
       /\ (radius = None \/ radius[1] >= 1))
      => result = Some(TRUE)

\* A Lit cell that is itself Blocking sees itself at radius 1.
C9_Witness ==
    /\ result = Some(TRUE)
    /\ origin = cell
    /\ blocking = {cell}
    /\ radius = Some(1)

\* C10: discovery is monotonic: over any turns and movements of the player, an
\* entry of known_cells that is true is never reset to false.
C10_Monotonic ==
    [][\A c \in DOMAIN known_cells : known_cells[c] => known_cells'[c]]_vars

\* The player has moved, and knows a cell that is out of sight now.
C10_Witness ==
    /\ pc = "play"
    /\ pos # upstairs[1]
    /\ \E c \in DOMAIN known_cells : known_cells[c] /\ ~can_see(grid, pos, c)

\* The reflections of the window of the queries, and its transposition.
ReflectX(c) == <<VisMax - c[1], c[2]>>
ReflectY(c) == <<c[1], VisMax - c[2]>>
Transpose(c) == <<c[2], c[1]>>

\* C13: the traced line is symmetric under reflection and transposition of the
\* grid: for T the x-reflection, the y-reflection or the transposition,
\* line(T(s), T(e)) is T applied to each cell of line(s, e).
C13_LineSymmetric ==
    LET l == line(origin, cell)
    IN /\ line(ReflectX(origin), ReflectX(cell)) = [n \in 1 .. Len(l) |-> ReflectX(l[n])]
       /\ line(ReflectY(origin), ReflectY(cell)) = [n \in 1 .. Len(l) |-> ReflectY(l[n])]
       /\ line(Transpose(origin), Transpose(cell)) = [n \in 1 .. Len(l) |-> Transpose(l[n])]

\* visible has traced a line that bends: neither straight along an axis nor a
\* diagonal, and two cells long or more.
C13_Witness ==
    /\ result # None
    /\ Abs(cell[1] - origin[1]) # Abs(cell[2] - origin[2])
    /\ cell[1] # origin[1]
    /\ cell[2] # origin[2]
    /\ Len(line(origin, cell)) >= 2

\* C16: a negative radius is rejected: visible never returns a boolean for it.
C16_NegativeRadiusRejected ==
    (radius # None /\ radius[1] < 0) => result = None

\* C19: for distinct start and end, line yields max(|dx|, |dy|) cells: the
\* first is start, each next one is one further along the major axis towards
\* end and at most one away along the minor axis, end is not yielded, and the
\* last cell is an 8-neighbour of end. For start = end the line is empty.
C19_LineShape ==
    LET l == line(origin, cell)
        dx == cell[1] - origin[1]
        dy == cell[2] - origin[2]
        major == IF Abs(dx) < Abs(dy) THEN 2 ELSE 1
        minor == 3 - major
        dir == IF cell[major] > origin[major] THEN 1 ELSE -1
    IN /\ Len(l) = Max(Abs(dx), Abs(dy))
       /\ origin # cell =>
            /\ l[1] = origin
            /\ \A n \in 1 .. (Len(l) - 1) :
                 /\ l[n + 1][major] = l[n][major] + dir
                 /\ Abs(l[n + 1][minor] - l[n][minor]) <= 1
            /\ cell \notin Range(l)
            /\ Max(Abs(cell[1] - l[Len(l)][1]), Abs(cell[2] - l[Len(l)][2])) = 1

\* visible has traced a steep line towards the top left, three cells long.
C19_Witness ==
    /\ result # None
    /\ cell[1] < origin[1]
    /\ cell[2] < origin[2]
    /\ Abs(cell[1] - origin[1]) < Abs(cell[2] - origin[2])
    /\ Len(line(origin, cell)) >= 3

\* C14: room placement is rejection sampling with no retry: each attempt counts
\* whether its candidate is accepted or not, an attempt leaves the accepted rooms
\* as they are or appends one room that is near none of them (the first
\* candidate is always accepted), and generate returns after exactly n_rooms
\* attempts, with at most n_rooms rooms and, when n_rooms >= 1, at least one.
C14_RejectionSampling ==
    [][/\ (pc = "rooms" /\ pc' = "rooms") =>
            /\ i' = i + 1
            /\ i' <= n_rooms
            /\ Len(v') \in {Len(v), Len(v) + 1}
            /\ SubSeq(v', 1, Len(v)) = v
            /\ Len(v) = 0 => Len(v') = 1
            /\ Len(v') = Len(v) + 1 =>
                 \A n \in 1 .. Len(v) : ~near(v[n], v'[Len(v')], ROOM_MIN_DISTANCE)
       /\ (pc = "rooms" /\ pc' = "paint") =>
            /\ i = n_rooms
            /\ v' = v
            /\ Len(v) <= n_rooms
            /\ n_rooms >= 1 => Len(v) >= 1]_vars

\* generate has returned two rooms or more, and fewer than it was asked for.
C14_Witness ==
    /\ pc = "paint"
    /\ Len(v) >= 2
    /\ Len(v) < n_rooms

\* The cells of the outermost rows and columns.
Border(sz) == {c \in Cells(sz) : c[1] \in {0, sz[1] - 1} \/ c[2] \in {0, sz[2] - 1}}

\* Whether a cell at one of the deltas from c is in the grid and not Wall.
OpenAt(g, c, deltas) ==
    \E d \in deltas :
        /\ <<c[1] + d[1], c[2] + d[2]>> \in DOMAIN g
        /\ g[<<c[1] + d[1], c[2] + d[2]>>] # "Wall"

\* The glyph C15 gives the tile at c.
Glyph(g, c) ==
    IF g[c] = "Wall"
    THEN IF OpenAt(g, c, {<<0, -1>>, <<0, 1>>}) THEN "-"
         ELSE IF OpenAt(g, c, {<<-1, 0>>, <<1, 0>>}) THEN "|"
         ELSE IF OpenAt(g, c, {-1, 1} \X {-1, 1}) THEN "+"
         ELSE " "
    ELSE [Floor |-> ".", Hallway |-> "#", Upstair |-> "<", Downstair |-> ">"][g[c]]

\* C15: a Wall tile is drawn '-' if a north or south neighbour in the grid is
\* not Wall, otherwise '|' if an east or west one is, otherwise '+' if a
\* diagonal one is, otherwise blank; neighbours outside of the grid are ignored,
\* and every other tile has its own glyph whatever its neighbourhood.
C15_WallGlyph ==
    [][(pc = "render_tile" /\ pc' = "returned") => result' = Some(Glyph(grid, cell))]_vars

\* render_tile has drawn a corner: a Wall on the rim of the level with a
\* diagonal neighbour that is not Wall, and no other.
C15_Witness ==
    /\ pc = "returned"
    /\ result = Some("+")
    /\ cell \in Border(size)

\* The Wall cells that are drawn blank.
BlankWalls(g, sz) == {w \in DOMAIN g : g[w] = "Wall" /\ render_tile(g, sz, w) = " "}

\* C17: a Wall tile that is drawn blank is never seen by an observer on another,
\* navigable cell.
C17_BlankUnseen ==
    pc = "play" =>
      /\ is_navigable(grid[pos])
      /\ \A w \in BlankWalls(grid, size) : ~can_see(grid, pos, w)

\* The player has walked into a hallway, with blank walls less than the
\* radius of sight away.
C17_Witness ==
    /\ pc = "play"
    /\ grid[pos] = "Hallway"
    /\ \E w \in BlankWalls(grid, size) :
         (w[1] - pos[1]) * (w[1] - pos[1]) + (w[2] - pos[2]) * (w[2] - pos[2]) < 10

\* C20: tile(x, y) returns the tile stored at (x, y) when that is a cell of
\* the level, and panics for every other coordinate, negative ones included: it
\* never clamps or wraps to a cell.
C20_TileFailsFast ==
    [][pc = "tile" =>
         IF cell \in Cells(size)
         THEN pc' = "returned" /\ result' = Some(grid[cell])
         ELSE pc' = "panic" /\ result' = None]_vars

\* tile has panicked on a negative x.
C20_Witness ==
    /\ pc = "panic"
    /\ cell[1] < 0
    /\ cell[2] \in 0 .. (size[2] - 1)
    /\ \E c \in DOMAIN grid : grid[c] # "Wall"

\* C11: when no Floor cell is there for a stair that is asked for, stair
\* placement gives up after a bounded number of samples: add_stairs never stays
\* in its loops forever.
C11_StairsGiveUp == (pc = "stairs") ~> (pc # "stairs")

\* C12: generation on a 20x10 grid with room_count = 5 succeeds whatever is
\* drawn: no draw of a room's size and corner fails, and the grid returned has
\* a Floor tile, exactly the stairs asked for, and is connected.
C12_EndToEnd ==
    /\ pc # "panic"
    /\ pc = "done" =>
         /\ \E c \in DOMAIN grid : grid[c] = "Floor"
         /\ Cardinality({c \in DOMAIN grid : grid[c] = "Upstair"}) = N_UPSTAIRS
         /\ Cardinality({c \in DOMAIN grid : grid[c] = "Downstair"}) = N_DOWNSTAIRS
         /\ Connected(grid)

\* C18: after generation every cell of the outermost rows and columns is Wall,
\* so the tile possible reads for a player on a navigable tile is in the grid.
C18_BorderIsWall ==
    pc = "done" =>
      /\ \A c \in Border(size) : grid[c] = "Wall"
      /\ \A c \in DOMAIN grid : \A a \in KeyActions :
           is_navigable(grid[c]) => Target(c, a) \in DOMAIN grid

\* generate is called for no room at all or for MaxRooms attempts.
Init == GenInit(LevelRegions, {0, MaxRooms})

Next ==
    \/ LevelRoomAttempt
    \/ RoomsReturn
    \/ PaintRooms
    \/ DrawWeights
    \/ AstarStart
    \/ AstarStep
    \/ CarvePath
    \/ HallwaysReturn
    \/ EmptySquareMiss
    \/ PlaceUpstair
    \/ PlaceDownstair
    \/ GenerateReturn

\* rooms::generate, from its call to its return.
Spec == Init /\ [][Next]_vars

\* rooms::generate on a processor that keeps running it: a step that changes
\* the state is taken whenever one can be.
SpecFair == Spec /\ WF_vars(Next)

\* The end-to-end run: generate(5, (20, 10), rng, 1, 1).
EndInit == GenInit({<<20, 10>>}, {5})

EndNext ==
    \/ LevelRoomAttempt
    \/ RoomsReturn
    \/ PaintRooms
    \/ DrawRimWeights
    \/ AstarStart
    \/ AstarStep
    \/ CarvePath
    \/ HallwaysReturn
    \/ EmptySquareMiss
    \/ PlaceUpstair
    \/ PlaceDownstair
    \/ GenerateReturn

SpecEndToEnd == EndInit /\ [][EndNext]_vars

====
